---- MODULE Spec2Model ----
(***************************************************************************)
(* Model of scripts/validate_eco_lite.py: one run of main() over the       *)
(* dataset file.  The file is a sequence of bytes (or is missing or        *)
(* unreadable); text is a sequence of Unicode code points; parsed JSON     *)
(* values are tagged records.                                              *)
(***************************************************************************)
EXTENDS Integers, Sequences, FiniteSets, TLC

(***************************************************************************)
(* Characters.  Chr lists the printable ASCII characters, code points      *)
(* 32..126, so that texts can be written legibly ("grave" holds the place  *)
(* of code point 96, which no text of the model uses).                     *)
(***************************************************************************)
Chr ==
  << " ", "!", "\"", "#", "$", "%", "&", "'", "(", ")", "*", "+", ",", "-",
     ".", "/", "0", "1", "2", "3", "4", "5", "6", "7", "8", "9", ":", ";",
     "<", "=", ">", "?", "@", "A", "B", "C", "D", "E", "F", "G", "H", "I",
     "J", "K", "L", "M", "N", "O", "P", "Q", "R", "S", "T", "U", "V", "W",
     "X", "Y", "Z", "[", "\\", "]", "^", "_", "grave", "a", "b", "c", "d", "e",
     "f", "g", "h", "i", "j", "k", "l", "m", "n", "o", "p", "q", "r", "s",
     "t", "u", "v", "w", "x", "y", "z", "{", "|", "}", "~" >>

Ord(c) == 31 + (CHOOSE i \in 1..Len(Chr) : Chr[i] = c)

\* The code points of a text written as a tuple of one-character strings.
T(cs) == [i \in 1..Len(cs) |-> Ord(cs[i])]

TAB == 9
LF == 10
CR == 13
BOM == 65279

(***************************************************************************)
(* UTF-8.  Utf8Decode is the strict decoder behind                         *)
(* read_text(encoding="utf-8"); Utf8Len is len(content.encode("utf-8")).   *)
(***************************************************************************)
IsCont(b) == b >= 128 /\ b <= 191

\* Number of bytes of the sequence a lead byte starts; 0: invalid start byte.
SeqLen(b) ==
  IF b < 128 THEN 1
  ELSE IF b >= 194 /\ b <= 223 THEN 2
  ELSE IF b >= 224 /\ b <= 239 THEN 3
  ELSE IF b >= 240 /\ b <= 244 THEN 4
  ELSE 0

\* The admissible range of the second byte excludes overlong forms, surrogates
\* and code points above U+10FFFF.
SecondOk(b1, b2) ==
  IF b1 = 224 THEN b2 >= 160 /\ b2 <= 191
  ELSE IF b1 = 237 THEN b2 >= 128 /\ b2 <= 159
  ELSE IF b1 = 240 THEN b2 >= 144 /\ b2 <= 191
  ELSE IF b1 = 244 THEN b2 >= 128 /\ b2 <= 143
  ELSE IsCont(b2)

\* The end of the run of ASCII bytes that starts at index i.
AsciiRunEnd(bs, i) ==
  CHOOSE j \in i..(Len(bs) + 1) :
    /\ j = Len(bs) + 1 \/ bs[j] >= 128
    /\ \A k \in i..(j - 1) : bs[k] < 128

RECURSIVE Utf8DecodeFrom(_, _, _)
Utf8DecodeFrom(bs, i, acc) ==
  IF i > Len(bs) THEN [ok |-> TRUE, text |-> acc]
  ELSE
    LET b1 == bs[i]
        n == SeqLen(b1)
        j == AsciiRunEnd(bs, i)
        Err(r) == [ok |-> FALSE,
                   exc |-> [type |-> "UnicodeDecodeError", pos |-> i - 1,
                            reason |-> r]]
    IN IF n = 0 THEN Err("invalid start byte")
       ELSE IF n = 1 THEN Utf8DecodeFrom(bs, j, acc \o SubSeq(bs, i, j - 1))
       ELSE IF i + 1 > Len(bs) THEN Err("unexpected end of data")
       ELSE IF ~SecondOk(b1, bs[i + 1]) THEN Err("invalid continuation byte")
       ELSE IF n = 2
         THEN Utf8DecodeFrom(bs, i + 2,
                Append(acc, (b1 - 192) * 64 + (bs[i + 1] - 128)))
       ELSE IF i + 2 > Len(bs) THEN Err("unexpected end of data")
       ELSE IF ~IsCont(bs[i + 2]) THEN Err("invalid continuation byte")
       ELSE IF n = 3
         THEN Utf8DecodeFrom(bs, i + 3,
                Append(acc, (b1 - 224) * 4096 + (bs[i + 1] - 128) * 64
                            + (bs[i + 2] - 128)))
       ELSE IF i + 3 > Len(bs) THEN Err("unexpected end of data")
       ELSE IF ~IsCont(bs[i + 3]) THEN Err("invalid continuation byte")
       ELSE Utf8DecodeFrom(bs, i + 4,
              Append(acc, (b1 - 240) * 262144 + (bs[i + 1] - 128) * 4096
                          + (bs[i + 2] - 128) * 64 + (bs[i + 3] - 128)))

Utf8Decode(bs) == Utf8DecodeFrom(bs, 1, << >>)

\* Mutant of Utf8Len: the text encoded with the wrong codec, UTF-16, two
\* bytes per code unit.
Utf8LenWrongCodec(s) ==
  2 * Len(s) + 2 * Cardinality({i \in 1..Len(s) : s[i] >= 65536})

\* len(s.encode("utf-8")): one byte per code point and one more for each
\* code point from U+0080, from U+0800 and from U+10000.
Utf8Len(s) ==
  Len(s) + Cardinality({i \in 1..Len(s) : s[i] >= 128})
         + Cardinality({i \in 1..Len(s) : s[i] >= 2048})
         + Cardinality({i \in 1..Len(s) : s[i] >= 65536})

(***************************************************************************)
(* Text mode.  read_text opens the file with newline=None: on input every  *)
(* CR LF pair and every lone CR becomes LF.                                *)
(***************************************************************************)
\* What the character at index i becomes: a CR becomes LF, the LF of a
\* CR LF pair is dropped.
TranslateAt(s, i) ==
  IF s[i] = CR THEN <<LF>>
  ELSE IF s[i] = LF /\ i > 1 /\ s[i - 1] = CR THEN << >>
  ELSE <<s[i]>>

RECURSIVE TranslateRange(_, _, _)
TranslateRange(s, lo, hi) ==
  IF lo > hi THEN << >>
  ELSE IF lo = hi THEN TranslateAt(s, lo)
  ELSE LET mid == (lo + hi) \div 2
       IN TranslateRange(s, lo, mid) \o TranslateRange(s, mid + 1, hi)

TranslateNewlines(s) == TranslateRange(s, 1, Len(s))

\* Path.read_text(encoding="utf-8") on a file of the model.
ReadText(f) ==
  IF f.status = "missing"
    THEN [ok |-> FALSE, exc |-> [type |-> "FileNotFoundError"]]
  ELSE IF f.status = "denied"
    THEN [ok |-> FALSE, exc |-> [type |-> "PermissionError"]]
  ELSE LET d == Utf8Decode(f.bytes)
       IN IF d.ok THEN [ok |-> TRUE, text |-> TranslateNewlines(d.text)]
          ELSE d

(***************************************************************************)
(* Parsed JSON values, as json.loads builds them: tagged by Python type.   *)
(* An int is unbounded.  A float is an IEEE 754 double, named by the       *)
(* decimal m * 10^e that repr prints for it, m not divisible by 10 (0.0 is *)
(* m = 0, e = 0), or one of the specials nan, inf, -inf, -0.0.  A dict     *)
(* keeps its keys in order of first insertion.                             *)
(***************************************************************************)
PyNone == [t |-> "NoneType"]
PyBool(b) == [t |-> "bool", b |-> b]
PyInt(n) == [t |-> "int", n |-> n]
PyFloat(m, e) == [t |-> "float", m |-> m, e |-> e, special |-> ""]
PySpecial(c) == [t |-> "float", m |-> 0, e |-> 0, special |-> c]
PyStr(s) == [t |-> "str", s |-> s]
PyList(items) == [t |-> "list", items |-> items]
PyDict(keys, vals) == [t |-> "dict", keys |-> keys, vals |-> vals]

SeqIndex(seq, x) ==
  IF \E p \in 1..Len(seq) : seq[p] = x
    THEN CHOOSE p \in 1..Len(seq) : seq[p] = x
    ELSE 0

\* d[k] = v
DictSet(d, k, v) ==
  LET p == SeqIndex(d.keys, k)
  IN IF p = 0 THEN PyDict(Append(d.keys, k), Append(d.vals, v))
     ELSE PyDict(d.keys, [d.vals EXCEPT ![p] = v])

\* key in entry
DictHas(d, k) == SeqIndex(d.keys, k) # 0

\* entry[key], for a key that is present
DictGet(d, k) == d.vals[SeqIndex(d.keys, k)]

(***************************************************************************)
(* json.loads: the scanner of the standard library, on a text given as     *)
(* code points.  An index i is 1-based; a reported position is i - 1.      *)
(* A result is [ok |-> TRUE, val, end] or [ok |-> FALSE, exc].             *)
(***************************************************************************)
IsWs(c) == c = 32 \/ c = TAB \/ c = LF \/ c = CR
IsDigit(c) == c >= 48 /\ c <= 57

HexVal(c) ==
  IF c >= 48 /\ c <= 57 THEN c - 48
  ELSE IF c >= 97 /\ c <= 102 THEN c - 87
  ELSE IF c >= 65 /\ c <= 70 THEN c - 55
  ELSE -1

JsonErr(msg, i) ==
  [ok |-> FALSE,
   exc |-> [type |-> "JSONDecodeError", msg |-> msg, pos |-> i - 1]]
IntErr(digits) ==
  [ok |-> FALSE, exc |-> [type |-> "ValueError", digits |-> digits]]
NestingErr(decoding) ==
  [ok |-> FALSE, exc |-> [type |-> "RecursionError", decoding |-> decoding]]
JsonOk(val, end) == [ok |-> TRUE, val |-> val, end |-> end]

RECURSIVE SkipWs(_, _)
SkipWs(s, i) ==
  IF i <= Len(s) /\ IsWs(s[i]) THEN SkipWs(s, i + 1) ELSE i

\* s[i:i+len(w)] == w
StartsWith(s, i, w) ==
  /\ i + Len(w) - 1 <= Len(s)
  /\ \A k \in 1..Len(w) : s[i + k - 1] = w[k]

\* The index after the digits that start at index i.
DigitsEnd(s, i) ==
  IF \A k \in i..Len(s) : IsDigit(s[k]) THEN Len(s) + 1
  ELSE CHOOSE j \in i..Len(s) :
         ~IsDigit(s[j]) /\ \A k \in i..(j - 1) : IsDigit(s[k])

\* The number written by the digits s[a..b-1], appended to the digits of n.
RECURSIVE DigitsVal(_, _, _, _)
DigitsVal(s, a, b, n) ==
  IF a >= b THEN n ELSE DigitsVal(s, a + 1, b, 10 * n + (s[a] - 48))

(***************************************************************************)
(* float(text): the double nearest to a * 10^e, the one with the even      *)
(* mantissa of two at equal distance.  A double is mant * 2^exp with       *)
(* 2^52 <= mant < 2^53, or mant < 2^52 at exp = MinExp (a subnormal).      *)
(***************************************************************************)
MantBits == 53
MinExp == 0 - 1074
MaxExp == 971

\* 10^309 is above the largest double, 10^-324 below half the smallest.
MaxDecExp == 308
MinDecExp == 0 - 324

\* A decimal of at most DblDig digits between 10^-307 and 10^308 is what
\* repr prints for the double nearest to it.
DblDig == 15
SafeDecExp == 307

Abs(n) == IF n < 0 THEN 0 - n ELSE n

\* The number of decimal digits of a >= 0.
RECURSIVE NumDigits(_)
NumDigits(a) ==
  IF a < 10 THEN 1
  ELSE IF a >= 10^9 THEN 9 + NumDigits(a \div 10^9)
  ELSE 1 + NumDigits(a \div 10)

\* The integer nearest to num / den, the even one of two at equal distance.
RoundHalfEven(num, den) ==
  IF 2 * (num % den) > den
     \/ (2 * (num % den) = den /\ (num \div den) % 2 = 1)
    THEN (num \div den) + 1
    ELSE num \div den

\* (num / den) / 2^q is ScaledNum(num, q) / ScaledDen(den, q).
ScaledNum(num, q) == IF q < 0 THEN num * 2^(0 - q) ELSE num
ScaledDen(den, q) == IF q > 0 THEN den * 2^q ELSE den

\* The exponent, from q on, at which num / den has a mantissa of 53 bits;
\* MinExp when num / den is below the normal doubles.
RECURSIVE BinExp(_, _, _)
BinExp(num, den, q) ==
  IF ScaledNum(num, q) >= ScaledDen(den, q) * 2^MantBits
    THEN BinExp(num, den, q + 1)
  ELSE IF q > MinExp
          /\ ScaledNum(num, q) < ScaledDen(den, q) * 2^(MantBits - 1)
    THEN BinExp(num, den, q - 1)
  ELSE q

\* An exponent near that of a number between 10^E and 10^(E + 1).
FirstExp(E) ==
  IF (E * 3322) \div 1000 - MantBits < MinExp THEN MinExp
  ELSE (E * 3322) \div 1000 - MantBits

\* A mantissa rounded up to 2^53 is 2^52 at the next exponent.
Renorm(m, q) ==
  IF m = 2^MantBits THEN [mant |-> 2^(MantBits - 1), exp |-> q + 1]
  ELSE [mant |-> m, exp |-> q]

NearestAt(num, den, q) ==
  Renorm(RoundHalfEven(ScaledNum(num, q), ScaledDen(den, q)), q)

NearestTo(num, den, E) == NearestAt(num, den, BinExp(num, den, FirstExp(E)))

\* The double nearest to a * 10^e, a > 0; exp > MaxExp when it is beyond
\* the largest double, mant = 0 when it is zero.
ToDouble(a, e) ==
  NearestTo(IF e >= 0 THEN a * 10^e ELSE a,
            IF e >= 0 THEN 1 ELSE 10^(0 - e),
            e + NumDigits(a) - 1)

\* The double x is exactly DecN(x) * 10^DecS(x).
DecN(x) == IF x.exp >= 0 THEN x.mant * 2^x.exp ELSE x.mant * 5^(0 - x.exp)
DecS(x) == IF x.exp >= 0 THEN 0 ELSE x.exp

RoundsTo(m, e, x) == m > 0 /\ ToDouble(m, e) = x

\* Of lo and lo + 1, the one nearer to N / 10^k.
Closer(N, lo, k) ==
  IF N - lo * 10^k < (lo + 1) * 10^k - N
     \/ (N - lo * 10^k = (lo + 1) * 10^k - N /\ lo % 2 = 0)
    THEN lo
    ELSE lo + 1

\* float_repr_style short: the decimal of the fewest digits, n or more,
\* that float() reads back as x = N * 10^s, N of D digits; of two such
\* decimals the one nearer to x.
RECURSIVE Shortest(_, _, _, _, _)
ShortestAt(x, N, D, s, n, lo, loOk, hiOk) ==
  IF loOk /\ hiOk THEN [m |-> Closer(N, lo, D - n), e |-> s + D - n]
  ELSE IF loOk THEN [m |-> lo, e |-> s + D - n]
  ELSE IF hiOk THEN [m |-> lo + 1, e |-> s + D - n]
  ELSE Shortest(x, N, D, s, n + 1)

Shortest(x, N, D, s, n) ==
  IF n >= D THEN [m |-> N, e |-> s]
  ELSE ShortestAt(x, N, D, s, n, N \div 10^(D - n),
                  RoundsTo(N \div 10^(D - n), s + D - n, x),
                  RoundsTo((N \div 10^(D - n)) + 1, s + D - n, x))

Zero(sign) == IF sign < 0 THEN PySpecial("-0.0") ELSE PyFloat(0, 0)

RECURSIVE Stripped(_, _, _)
Stripped(sign, m, e) ==
  IF m % 10 = 0 THEN Stripped(sign, m \div 10, e + 1)
  ELSE PyFloat(sign * m, e)

StrippedOf(sign, r) == Stripped(sign, r.m, r.e)

FloatOfDouble(sign, x) ==
  IF x.exp > MaxExp THEN PySpecial(IF sign < 0 THEN "-inf" ELSE "inf")
  ELSE IF x.mant = 0 THEN Zero(sign)
  ELSE StrippedOf(sign, Shortest(x, DecN(x), NumDigits(DecN(x)), DecS(x), 1))

\* sign * a * 10^e as a float, a > 0 of d digits and not a multiple of 10.
FloatOf(sign, a, d, e) ==
  IF e + d - 1 > MaxDecExp THEN PySpecial(IF sign < 0 THEN "-inf" ELSE "inf")
  ELSE IF e + d - 1 < MinDecExp THEN Zero(sign)
  ELSE IF d <= DblDig /\ e + d - 1 <= SafeDecExp /\ e + d - 1 >= 0 - SafeDecExp
    THEN PyFloat(sign * a, e)
  ELSE FloatOfDouble(sign, ToDouble(a, e))

\* float() of the text of sign, the digits of a >= 0 and the exponent e.
RECURSIVE ToFloat(_, _, _)
ToFloat(sign, a, e) ==
  IF a = 0 THEN Zero(sign)
  ELSE IF a % 10 = 0 THEN ToFloat(sign, a \div 10, e + 1)
  ELSE FloatOf(sign, a, NumDigits(a), e)

\* float(m * 10^e)
NormFloat(m, e) == ToFloat(IF m < 0 THEN 0 - 1 ELSE 1, Abs(m), e)

\* int(text) raises ValueError for more than MaxStrDigits digits
\* (sys.get_int_max_str_digits()).
MaxStrDigits == 4300

\* The scanner raises RecursionError for an array or object inside
\* MaxNesting others (sys.getrecursionlimit() less the frames of the call).
MaxNesting == 994

\* _match_number: -?(0|[1-9][0-9]*)(\.[0-9]+)?([eE][-+]?[0-9]+)?
MatchNumber(s, start) ==
  LET neg == s[start] = 45
      i0 == IF neg THEN start + 1 ELSE start
      sign == IF neg THEN -1 ELSE 1
  IN IF i0 > Len(s) \/ ~IsDigit(s[i0]) THEN JsonErr("Expecting value", start)
     ELSE
       LET i1 == IF s[i0] = 48 THEN i0 + 1 ELSE DigitsEnd(s, i0)
           hasFrac == i1 < Len(s) /\ s[i1] = 46 /\ IsDigit(s[i1 + 1])
           i2 == IF hasFrac THEN DigitsEnd(s, i1 + 1) ELSE i1
           isE == i2 < Len(s) /\ (s[i2] = 101 \/ s[i2] = 69)
           hasSign == isE /\ i2 + 1 < Len(s)
                          /\ (s[i2 + 1] = 43 \/ s[i2 + 1] = 45)
           d0 == IF hasSign THEN i2 + 2 ELSE i2 + 1
           i3 == IF isE THEN DigitsEnd(s, d0) ELSE i2
           hasExp == isE /\ i3 > d0
           end == IF hasExp THEN i3 ELSE i2
           expNeg == hasSign /\ s[i2 + 1] = 45
           expVal == IF hasExp
                       THEN (IF expNeg THEN -1 ELSE 1) * DigitsVal(s, d0, i3, 0)
                       ELSE 0
           intVal == DigitsVal(s, i0, i1, 0)
           mant == IF hasFrac THEN DigitsVal(s, i1 + 1, i2, intVal) ELSE intVal
           fracLen == IF hasFrac THEN i2 - (i1 + 1) ELSE 0
       IN IF hasFrac \/ hasExp
            THEN JsonOk(ToFloat(sign, mant, expVal - fracLen), end)
          ELSE IF i1 - i0 > MaxStrDigits THEN IntErr(i1 - i0)
          ELSE JsonOk(PyInt(sign * intVal), end)

\* The four hex digits s[i..i+3] as a number, -1 if one is not a hex digit.
Hex4(s, i) ==
  IF \E k \in 0..3 : HexVal(s[i + k]) = -1 THEN -1
  ELSE HexVal(s[i]) * 4096 + HexVal(s[i + 1]) * 256
       + HexVal(s[i + 2]) * 16 + HexVal(s[i + 3])

\* BACKSLASH: the character a one-letter escape stands for, -1 if none.
Unescape(c) ==
  IF c = 34 \/ c = 92 \/ c = 47 THEN c
  ELSE IF c = 98 THEN 8
  ELSE IF c = 102 THEN 12
  ELSE IF c = 110 THEN LF
  ELSE IF c = 114 THEN CR
  ELSE IF c = 116 THEN TAB
  ELSE -1

\* scanstring (strict): i is the index after the opening quote at begin.
\* The value of a successful result is the string's code points.
RECURSIVE ScanString(_, _, _, _)
ScanString(s, i, begin, acc) ==
  IF i > Len(s) THEN JsonErr("Unterminated string starting at", begin)
  ELSE IF s[i] = 34 THEN JsonOk(acc, i + 1)
  ELSE IF s[i] < 32 THEN JsonErr("Invalid control character at", i)
  ELSE IF s[i] # 92 THEN ScanString(s, i + 1, begin, Append(acc, s[i]))
  ELSE IF i + 1 > Len(s) THEN JsonErr("Unterminated string starting at", begin)
  ELSE IF s[i + 1] # 117
    THEN IF Unescape(s[i + 1]) = -1 THEN JsonErr("Invalid \\escape", i)
         ELSE ScanString(s, i + 2, begin, Append(acc, Unescape(s[i + 1])))
  ELSE IF i + 6 > Len(s) THEN JsonErr("Invalid \\uXXXX escape", i + 1)
  ELSE
    LET c1 == Hex4(s, i + 2)
        high == c1 >= 55296 /\ c1 <= 56319
        pair == high /\ i + 12 <= Len(s) /\ s[i + 6] = 92 /\ s[i + 7] = 117
        c2 == IF pair THEN Hex4(s, i + 8) ELSE 0
    IN IF c1 = -1 THEN JsonErr("Invalid \\uXXXX escape", i + 1)
       ELSE IF pair /\ c2 = -1 THEN JsonErr("Invalid \\uXXXX escape", i + 7)
       ELSE IF pair /\ c2 >= 56320 /\ c2 <= 57343
         THEN ScanString(s, i + 12, begin,
                Append(acc, 65536 + (c1 - 55296) * 1024 + (c2 - 56320)))
       ELSE ScanString(s, i + 6, begin, Append(acc, c1))

RECURSIVE ScanOnce(_, _, _)
RECURSIVE ParseArrayItems(_, _, _, _)
RECURSIVE ParseObjectPairs(_, _, _, _)
RECURSIVE AfterItem(_, _, _, _)
RECURSIVE AfterItemAt(_, _, _, _)
RECURSIVE AfterKey(_, _, _, _)
RECURSIVE AfterKeyAt(_, _, _, _, _)
RECURSIVE AfterValue(_, _, _, _, _)
RECURSIVE AfterValueAt(_, _, _, _)

\* In the operators below depth is the number of arrays and objects the
\* scanner is inside of.

\* JSONArray: j is the index of the first non-blank after the bracket.
ParseArrayAt(s, j, depth) ==
  IF j <= Len(s) /\ s[j] = 93 THEN JsonOk(PyList(<< >>), j + 1)
  ELSE ParseArrayItems(s, j, << >>, depth)

\* JSONArray: i is the index after the opening bracket.
ParseArray(s, i, depth) == ParseArrayAt(s, SkipWs(s, i), depth)

\* The next element starts at index i; acc holds the elements before it.
ParseArrayItems(s, i, acc, depth) ==
  AfterItem(s, ScanOnce(s, i, depth), acc, depth)

\* r is the result of scanning an element.
AfterItem(s, r, acc, depth) ==
  IF ~r.ok THEN r
  ELSE AfterItemAt(s, SkipWs(s, r.end), Append(acc, r.val), depth)

\* j is the index of the first non-blank after an element.
AfterItemAt(s, j, acc, depth) ==
  IF j <= Len(s) /\ s[j] = 93 THEN JsonOk(PyList(acc), j + 1)
  ELSE IF j > Len(s) \/ s[j] # 44 THEN JsonErr("Expecting ',' delimiter", j)
  ELSE ParseArrayItems(s, SkipWs(s, j + 1), acc, depth)

\* JSONObject: j is the index of the first non-blank after the brace.
ParseObjectAt(s, j, depth) ==
  IF j <= Len(s) /\ s[j] = 125 THEN JsonOk(PyDict(<< >>, << >>), j + 1)
  ELSE ParseObjectPairs(s, j, PyDict(<< >>, << >>), depth)

\* JSONObject: i is the index after the opening brace.
ParseObject(s, i, depth) == ParseObjectAt(s, SkipWs(s, i), depth)

\* The next key starts at index i; d holds the pairs before it.
ParseObjectPairs(s, i, d, depth) ==
  IF i > Len(s) \/ s[i] # 34
    THEN JsonErr("Expecting property name enclosed in double quotes", i)
  ELSE AfterKey(s, ScanString(s, i + 1, i, << >>), d, depth)

\* k is the result of scanning a key.
AfterKey(s, k, d, depth) ==
  IF ~k.ok THEN k ELSE AfterKeyAt(s, SkipWs(s, k.end), k.val, d, depth)

\* c is the index of the first non-blank after the key.
AfterKeyAt(s, c, key, d, depth) ==
  IF c > Len(s) \/ s[c] # 58 THEN JsonErr("Expecting ':' delimiter", c)
  ELSE AfterValue(s, ScanOnce(s, SkipWs(s, c + 1), depth), key, d, depth)

\* v is the result of scanning the value of key.
AfterValue(s, v, key, d, depth) ==
  IF ~v.ok THEN v
  ELSE AfterValueAt(s, SkipWs(s, v.end), DictSet(d, key, v.val), depth)

\* j is the index of the first non-blank after a value.
AfterValueAt(s, j, d, depth) ==
  IF j <= Len(s) /\ s[j] = 125 THEN JsonOk(d, j + 1)
  ELSE IF j > Len(s) \/ s[j] # 44 THEN JsonErr("Expecting ',' delimiter", j)
  ELSE ParseObjectPairs(s, SkipWs(s, j + 1), d, depth)

\* The result of scanstring as a value.
StringResult(r) == IF r.ok THEN JsonOk(PyStr(r.val), r.end) ELSE r

\* scan_once: one JSON value starting at index i.
ScanOnce(s, i, depth) ==
  IF i > Len(s) THEN JsonErr("Expecting value", i)
  ELSE IF s[i] = 34 THEN StringResult(ScanString(s, i + 1, i, << >>))
  ELSE IF s[i] = 123
    THEN IF depth >= MaxNesting THEN NestingErr("object")
         ELSE ParseObject(s, i + 1, depth + 1)
  ELSE IF s[i] = 91
    THEN IF depth >= MaxNesting THEN NestingErr("array")
         ELSE ParseArray(s, i + 1, depth + 1)
  ELSE IF StartsWith(s, i, T(<<"n", "u", "l", "l">>))
    THEN JsonOk(PyNone, i + 4)
  ELSE IF StartsWith(s, i, T(<<"t", "r", "u", "e">>))
    THEN JsonOk(PyBool(TRUE), i + 4)
  ELSE IF StartsWith(s, i, T(<<"f", "a", "l", "s", "e">>))
    THEN JsonOk(PyBool(FALSE), i + 5)
  ELSE IF StartsWith(s, i, T(<<"N", "a", "N">>))
    THEN JsonOk(PySpecial("nan"), i + 3)
  ELSE IF StartsWith(s, i, T(<<"I", "n", "f", "i", "n", "i", "t", "y">>))
    THEN JsonOk(PySpecial("inf"), i + 8)
  ELSE IF StartsWith(s, i, T(<<"-", "I", "n", "f", "i", "n", "i", "t", "y">>))
    THEN JsonOk(PySpecial("-inf"), i + 9)
  ELSE MatchNumber(s, i)

JsonRaise(msg, pos) ==
  [ok |-> FALSE,
   exc |-> [type |-> "JSONDecodeError", msg |-> msg, pos |-> pos]]

\* The end of decode: only blanks may follow the value.
JsonLoadsEnd(s, val, end) ==
  IF end # Len(s) + 1 THEN JsonRaise("Extra data", end - 1)
  ELSE [ok |-> TRUE, val |-> val]

\* r is the result of scanning the document.
JsonLoadsResult(s, r) ==
  IF ~r.ok THEN r
  ELSE JsonLoadsEnd(s, r.val, SkipWs(s, r.end))

\* json.loads(content): a result [ok |-> TRUE, val] or
\* [ok |-> FALSE, exc], exc the JSONDecodeError, ValueError or
\* RecursionError raised.
JsonLoads(s) ==
  IF Len(s) > 0 /\ s[1] = BOM
    THEN JsonRaise("Unexpected UTF-8 BOM (decode using utf-8-sig)", 0)
  ELSE JsonLoadsResult(s, ScanOnce(s, SkipWs(s, 1), 0))

(***************************************************************************)
(* collections.Counter over the moves values.  Keys are compared as a      *)
(* Python dict compares them: strings by their code points, bool, int and  *)
(* float by exact numeric value (True == 1 == 1.0), None with None; a list *)
(* or a dict is unhashable and makes the insertion raise TypeError.        *)
(***************************************************************************)
IsHashable(v) == v.t # "list" /\ v.t # "dict"

IsNumber(v) == v.t = "bool" \/ v.t = "int" \/ v.t = "float"

\* The int a bool or an int stands for.
IntValue(v) == IF v.t = "bool" THEN (IF v.b THEN 1 ELSE 0) ELSE v.n

\* The float a number compares as: float(n) for an int, 0.0 for -0.0.
NumValue(v) ==
  IF v.t # "float" THEN NormFloat(IntValue(v), 0)
  ELSE IF v.special = "-0.0" THEN PyFloat(0, 0)
  ELSE v

\* x is exactly the int n >= 0.
ExactDouble(n, x) ==
  /\ x.exp <= MaxExp
  /\ IF x.exp >= 0 THEN x.mant * 2^x.exp = n ELSE x.mant = n * 2^(0 - x.exp)

\* float(n) == n: no rounding on the way from the int to the double.
IsExactInt(n) ==
  NumDigits(Abs(n)) <= DblDig \/ ExactDouble(Abs(n), ToDouble(Abs(n), 0))

\* Python compares an int with a float by their exact values.
NumEq(a, b) ==
  IF a.t # "float" /\ b.t # "float" THEN IntValue(a) = IntValue(b)
  ELSE IF a.t # "float" THEN IsExactInt(IntValue(a)) /\ NumValue(a) = NumValue(b)
  ELSE IF b.t # "float" THEN IsExactInt(IntValue(b)) /\ NumValue(a) = NumValue(b)
  ELSE NumValue(a) = NumValue(b)

\* a == b with hash(a) == hash(b), for hashable a and b
KeyEq(a, b) ==
  IF a.t = "str" /\ b.t = "str" THEN a.s = b.s
  ELSE IF IsNumber(a) /\ IsNumber(b) THEN NumEq(a, b)
  ELSE a.t = "NoneType" /\ b.t = "NoneType"

KeyIndex(keys, v) ==
  IF \E p \in 1..Len(keys) : KeyEq(keys[p], v)
    THEN CHOOSE p \in 1..Len(keys) : KeyEq(keys[p], v)
    ELSE 0

\* Counter(iterable): keys in order of first occurrence with their counts,
\* or the TypeError raised at the first unhashable element.
RECURSIVE CountElements(_, _, _, _)
CountElements(items, i, keys, counts) ==
  IF i > Len(items) THEN [ok |-> TRUE, keys |-> keys, counts |-> counts]
  ELSE IF ~IsHashable(items[i])
    THEN [ok |-> FALSE,
          exc |-> [type |-> "TypeError", unhashable |-> items[i].t]]
  ELSE LET p == KeyIndex(keys, items[i])
       IN IF p = 0
            THEN CountElements(items, i + 1, Append(keys, items[i]),
                               Append(counts, 1))
            ELSE CountElements(items, i + 1, keys,
                               [counts EXCEPT ![p] = @ + 1])

Counter(items) == CountElements(items, 1, << >>, << >>)

\* [moves for moves, count in move_counts.items() if count > 1]
RECURSIVE DuplicatesFrom(_, _)
DuplicatesFrom(c, i) ==
  IF i > Len(c.keys) THEN << >>
  ELSE IF c.counts[i] > 1 THEN <<c.keys[i]>> \o DuplicatesFrom(c, i + 1)
  ELSE DuplicatesFrom(c, i + 1)

(***************************************************************************)
(* The field check of one entry: the body of the for loop over data.       *)
(***************************************************************************)
RequiredKeys == << T(<<"e", "c", "o">>), T(<<"n", "a", "m", "e">>),
                   T(<<"m", "o", "v", "e", "s">>) >>

MovesKey == RequiredKeys[3]

\* Mutant of KeysLoop: the break is missing, an index is appended once for
\* each absent key.
RECURSIVE KeysLoopNoBreak(_, _, _, _)
KeysLoopNoBreak(entry, index, acc, k) ==
  IF k > Len(RequiredKeys) THEN acc
  ELSE IF ~DictHas(entry, RequiredKeys[k])
    THEN KeysLoopNoBreak(entry, index, Append(acc, index), k + 1)
  ELSE KeysLoopNoBreak(entry, index, acc, k + 1)

\* for key in ("eco", "name", "moves"): if key not in entry: append; break
RECURSIVE KeysLoop(_, _, _, _)
KeysLoop(entry, index, acc, k) ==
  IF k > Len(RequiredKeys) THEN acc
  ELSE IF ~DictHas(entry, RequiredKeys[k]) THEN Append(acc, index)
  ELSE KeysLoop(entry, index, acc, k + 1)

CheckEntry(entry, index, acc) ==
  IF entry.t # "dict" THEN Append(acc, index)
  ELSE KeysLoop(entry, index, acc, 1)

(***************************************************************************)
(* Input files.  A file is missing, unreadable, or holds bytes.  Array     *)
(* files are written from the element texts below, up to MaxLen elements,  *)
(* on one line or on lines that end in CR LF; OtherFiles are further       *)
(* contents of every kind the stages of main() tell apart.                 *)
(***************************************************************************)
MaxLen == 3

EntryPolish ==
  T(<<"{", "\"", "e", "c", "o", "\"", ":", "\"", "A", "0", "0", "\"", ",",
      "\"", "n", "a", "m", "e", "\"", ":", "\"", "P", "o", "l", "i", "s",
      "h", "\"", ",", "\"", "m", "o", "v", "e", "s", "\"", ":", "\"", "1",
      ".", "b", "4", "\"", "}">>)

EntryBird ==
  T(<<"{", "\"", "e", "c", "o", "\"", ":", "\"", "A", "0", "1", "\"", ",",
      "\"", "n", "a", "m", "e", "\"", ":", "\"", "B", "i", "r", "d", "\"",
      ",", "\"", "m", "o", "v", "e", "s", "\"", ":", "\"", "1", ".", "b",
      "4", "\"", "}">>)

EntryNoMoves ==
  T(<<"{", "\"", "e", "c", "o", "\"", ":", "\"", "A", "0", "0", "\"", ",",
      "\"", "n", "a", "m", "e", "\"", ":", "\"", "P", "o", "l", "i", "s",
      "h", "\"", "}">>)

EntryOnlyMoves ==
  T(<<"{", "\"", "m", "o", "v", "e", "s", "\"", ":", "\"", "1", ".", "b",
      "4", "\"", "}">>)

EntryEmpty ==
  T(<<"{", "}">>)

EntryScalar ==
  T(<<"\"", "1", ".", "b", "4", "\"">>)

EntryMovesOne ==
  T(<<"{", "\"", "e", "c", "o", "\"", ":", "\"", "A", "0", "0", "\"", ",",
      "\"", "n", "a", "m", "e", "\"", ":", "\"", "O", "n", "e", "\"", ",",
      "\"", "m", "o", "v", "e", "s", "\"", ":", "1", "}">>)

EntryMovesTrue ==
  T(<<"{", "\"", "e", "c", "o", "\"", ":", "\"", "A", "0", "0", "\"", ",",
      "\"", "n", "a", "m", "e", "\"", ":", "\"", "T", "r", "u", "e", "\"",
      ",", "\"", "m", "o", "v", "e", "s", "\"", ":", "t", "r", "u", "e", "}">>)

EntryMovesList ==
  T(<<"{", "\"", "e", "c", "o", "\"", ":", "\"", "A", "0", "0", "\"", ",",
      "\"", "n", "a", "m", "e", "\"", ":", "\"", "L", "i", "s", "t", "\"",
      ",", "\"", "m", "o", "v", "e", "s", "\"", ":", "[", "]", "}">>)

\* moves differs from 1.b4 in case only; keys in another order; the name
\* is U+00E9, two bytes in UTF-8.
EntryUpper ==
  T(<<"{", "\"", "m", "o", "v", "e", "s", "\"", ":", "\"", "1", ".", "B",
      "4", "\"", ",", "\"", "n", "a", "m", "e", "\"", ":", "\"">>) \o <<195, 169>> \o
  T(<<"\"", ",", "\"", "e", "c", "o", "\"", ":", "\"", "A", "0", "0", "\"",
      "}">>)

Elements == << EntryPolish, EntryBird, EntryUpper, EntryNoMoves,
               EntryOnlyMoves, EntryEmpty, EntryScalar, EntryMovesOne,
               EntryMovesTrue, EntryMovesList >>

\* Layouts: what is written before, between and after the elements.
Layouts ==
  << [open |-> T(<<"[">>), sep |-> T(<<",">>), close |-> T(<<"]">>)],
     [open |-> T(<<"[">>) \o <<CR, LF>>, sep |-> T(<<",">>) \o <<CR, LF>>,
      close |-> <<CR, LF>> \o T(<<"]">>) \o <<CR, LF>>] >>

RECURSIVE Join(_, _)
Join(ss, sep) ==
  IF ss = << >> THEN << >>
  ELSE IF Len(ss) = 1 THEN ss[1]
  ELSE ss[1] \o sep \o Join(Tail(ss), sep)

ArrayBytes(elems, layout) ==
  layout.open \o Join(elems, layout.sep) \o layout.close

OnDisk(bytes) == [status |-> "ok", bytes |-> bytes]

Choices == UNION { [1..n -> 1..Len(Elements)] : n \in 0..MaxLen }

\* Every array is written compactly; the arrays of fewer than MaxLen
\* elements are written in the CRLF layout as well.
LayoutsOf(c) == IF Len(c) < MaxLen THEN 1..Len(Layouts) ELSE {1}

ArrayFiles ==
  { OnDisk(ArrayBytes([k \in DOMAIN c[1] |-> Elements[c[1][k]]], Layouts[c[2]])) :
      c \in UNION { {<<ch, l>> : l \in LayoutsOf(ch)} : ch \in Choices } }

\* Byte sequences that are not valid UTF-8: an invalid start byte, a
\* truncated sequence, an overlong form and an encoded surrogate.
BadUtf8Bytes ==
  <<
    <<255>>,
    T(<<"[">>) \o
    <<195>>,
    T(<<"[">>) \o
    <<192, 128>> \o
    T(<<"]">>),
    T(<<"[", "\"">>) \o
    <<237, 160, 128>> \o
    T(<<"\"", "]">>),
    T(<<"[", "\"">>) \o
    <<226, 130>> \o
    T(<<"\"", "]">>)
  >>

\* Valid UTF-8 that is not a JSON document.
BadJsonBytes ==
  <<
    << >>,
    <<239, 187, 191>> \o
    T(<<"[", "]">>),
    T(<<"[">>),
    T(<<"[", "1", ",", "]">>),
    T(<<"[", "{", "\"", "e", "c", "o", "\"", ":", "\"", "A", "0", "0",
        "\"", ",", "\"", "n", "a", "m", "e", "\"", ":", "\"", "P", "o",
        "l", "i", "s", "h", "\"", ",", "\"", "m", "o", "v", "e", "s", "\"",
        ":", "\"", "1", ".", "b", "4", "\"", "}", ",", "]">>),
    T(<<"{", "\"", "a", "\"", ":", "1", ",", "}">>),
    T(<<"n", "u", "l">>),
    T(<<"[", "\"", "\\", "x", "\"", "]">>),
    T(<<"[", "]", " ", "[", "]">>),
    T(<<"[", "{", "\"", "e", "c", "o", "\"", ":", "\"", "A", "0", "0",
        "\"", " ", "\"", "n", "a", "m", "e", "\"", ":", "\"", "P", "o",
        "l", "i", "s", "h", "\"", "}", "]">>),
    T(<<"[", "'", "1", ".", "b", "4", "'", "]">>),
    T(<<"[", "\"", "1", ".", "b", "4">>),
    T(<<"[", "{", "\"", "m", "o", "v", "e", "s", "\"", "}", "]">>),
    T(<<"[", "\"">>) \o
    <<9>> \o
    T(<<"\"", "]">>),
    T(<<"[", "\"", "\\", "u", "1", "2", "\"", "]">>)
  >>

\* JSON documents whose root is not an array.
NonArrayBytes ==
  <<
    T(<<"{", "}">>),
    T(<<"{", "\"", "e", "c", "o", "\"", ":", "\"", "A", "0", "0", "\"",
        ",", "\"", "n", "a", "m", "e", "\"", ":", "\"", "P", "o", "l", "i",
        "s", "h", "\"", ",", "\"", "m", "o", "v", "e", "s", "\"", ":",
        "\"", "1", ".", "b", "4", "\"", "}">>),
    T(<<"{", "\"", "m", "o", "v", "e", "s", "\"", ":", "[", "]", "}">>),
    T(<<"{", "\"", "a", "\"", ":", "[", "1", ",", "2", "]", "}">>),
    T(<<"\"", "1", ".", "b", "4", "\"">>),
    T(<<"7">>),
    T(<<"-", "1", ".", "5", "e", "2">>),
    T(<<"t", "r", "u", "e">>),
    T(<<"f", "a", "l", "s", "e">>),
    T(<<"n", "u", "l", "l">>),
    T(<<"N", "a", "N">>),
    T(<<" ", "{", "\"", "e", "c", "o", "\"", ":", "1", "}">>) \o
    <<13, 10>>
  >>

\* The documented scenario of one valid record.
ScenarioPolish ==
  T(<<"[", "{", "\"", "e", "c", "o", "\"", ":", "\"", "A", "0", "0",
      "\"", ",", "\"", "n", "a", "m", "e", "\"", ":", "\"", "P", "o",
      "l", "i", "s", "h", "\"", ",", "\"", "m", "o", "v", "e", "s", "\"",
      ":", "\"", "1", ".", "b", "4", "\"", "}", "]">>)

\* The documented scenario of two records with the same moves.
ScenarioDuplicate ==
  T(<<"[", "{", "\"", "e", "c", "o", "\"", ":", "\"", "A", "0", "0",
      "\"", ",", "\"", "n", "a", "m", "e", "\"", ":", "\"", "P", "o",
      "l", "i", "s", "h", "\"", ",", "\"", "m", "o", "v", "e", "s", "\"",
      ":", "\"", "1", ".", "b", "4", "\"", "}", ",", "{", "\"", "e", "c",
      "o", "\"", ":", "\"", "A", "0", "1", "\"", ",", "\"", "n", "a",
      "m", "e", "\"", ":", "\"", "B", "i", "r", "d", "\"", ",", "\"",
      "m", "o", "v", "e", "s", "\"", ":", "\"", "1", ".", "b", "4", "\"",
      "}", "]">>)

\* Further arrays: the two documented scenarios, escapes, numbers that
\* compare equal, unhashable and repeated special values, repeated keys,
\* lone CR and LF line ends, a four-byte character.
MoreArrayBytes ==
  <<
    ScenarioPolish,
    ScenarioDuplicate,
    T(<<"[">>) \o <<LF>> \o T(<<"]">>) \o <<LF>>,
    T(<<"[">>) \o <<LF>> \o EntryPolish \o T(<<",">>) \o <<LF>> \o EntryUpper
      \o <<LF>> \o T(<<"]">>) \o <<LF>>,
    T(<<"[">>) \o <<LF, TAB>> \o EntryPolish \o T(<<",">>) \o <<CR>>
      \o EntryNoMoves \o T(<<" ", "]">>),
    T(<<"[", "{", "\"", "e", "c", "o", "\"", ":", "\"", "A", "0", "0",
        "\"", ",", "\"", "n", "a", "m", "e", "\"", ":", "\"", "P", "o",
        "l", "i", "s", "h", "\"", ",", "\"", "m", "o", "v", "e", "s", "\"",
        ":", "\"", "1", ".", "b", "4", "\"", "}", ",", "{", "\"", "m", "o",
        "v", "e", "s", "\"", ":", "\"", "1", ".", "b", "\\", "u", "0", "0",
        "3", "4", "\"", ",", "\"", "n", "a", "m", "e", "\"", ":", "\"",
        "B", "i", "r", "d", "\"", ",", "\"", "e", "c", "o", "\"", ":",
        "\"", "A", "0", "1", "\"", "}", "]">>),
    T(<<"[", "{", "\"", "e", "c", "o", "\"", ":", "1", ",", "\"", "n", "a",
        "m", "e", "\"", ":", "2", ",", "\"", "m", "o", "v", "e", "s", "\"",
        ":", "1", "}", ",", "{", "\"", "e", "c", "o", "\"", ":", "1", ",",
        "\"", "n", "a", "m", "e", "\"", ":", "2", ",", "\"", "m", "o", "v",
        "e", "s", "\"", ":", "1", ".", "0", "}", "]">>),
    T(<<"[", "{", "\"", "e", "c", "o", "\"", ":", "1", ",", "\"", "n", "a",
        "m", "e", "\"", ":", "2", ",", "\"", "m", "o", "v", "e", "s", "\"",
        ":", "0", "}", ",", "{", "\"", "e", "c", "o", "\"", ":", "1", ",",
        "\"", "n", "a", "m", "e", "\"", ":", "2", ",", "\"", "m", "o", "v",
        "e", "s", "\"", ":", "-", "0", ".", "0", "}", ",", "{", "\"", "e",
        "c", "o", "\"", ":", "1", ",", "\"", "n", "a", "m", "e", "\"", ":",
        "2", ",", "\"", "m", "o", "v", "e", "s", "\"", ":", "f", "a", "l",
        "s", "e", "}", "]">>),
    T(<<"[", "{", "\"", "e", "c", "o", "\"", ":", "1", ",", "\"", "n", "a",
        "m", "e", "\"", ":", "2", ",", "\"", "m", "o", "v", "e", "s", "\"",
        ":", "1", "0", "}", ",", "{", "\"", "e", "c", "o", "\"", ":", "1",
        ",", "\"", "n", "a", "m", "e", "\"", ":", "2", ",", "\"", "m", "o",
        "v", "e", "s", "\"", ":", "1", "e", "1", "}", "]">>),
    T(<<"[", "{", "\"", "e", "c", "o", "\"", ":", "1", ",", "\"", "n", "a",
        "m", "e", "\"", ":", "2", ",", "\"", "m", "o", "v", "e", "s", "\"",
        ":", "1", ".", "5", "}", ",", "{", "\"", "e", "c", "o", "\"", ":",
        "1", ",", "\"", "n", "a", "m", "e", "\"", ":", "2", ",", "\"", "m",
        "o", "v", "e", "s", "\"", ":", "1", "5", "}", "]">>),
    T(<<"[", "{", "\"", "e", "c", "o", "\"", ":", "1", ",", "\"", "n", "a",
        "m", "e", "\"", ":", "2", ",", "\"", "m", "o", "v", "e", "s", "\"",
        ":", "N", "a", "N", "}", "]">>),
    T(<<"[", "{", "\"", "e", "c", "o", "\"", ":", "1", ",", "\"", "n", "a",
        "m", "e", "\"", ":", "2", ",", "\"", "m", "o", "v", "e", "s", "\"",
        ":", "N", "a", "N", "}", ",", "{", "\"", "e", "c", "o", "\"", ":",
        "1", ",", "\"", "n", "a", "m", "e", "\"", ":", "2", ",", "\"", "m",
        "o", "v", "e", "s", "\"", ":", "N", "a", "N", "}", "]">>),
    T(<<"[", "{", "\"", "e", "c", "o", "\"", ":", "1", ",", "\"", "n", "a",
        "m", "e", "\"", ":", "2", ",", "\"", "m", "o", "v", "e", "s", "\"",
        ":", "n", "u", "l", "l", "}", ",", "{", "\"", "e", "c", "o", "\"",
        ":", "1", ",", "\"", "n", "a", "m", "e", "\"", ":", "2", ",", "\"",
        "m", "o", "v", "e", "s", "\"", ":", "n", "u", "l", "l", "}", "]">>),
    T(<<"[", "{", "\"", "e", "c", "o", "\"", ":", "1", ",", "\"", "n", "a",
        "m", "e", "\"", ":", "2", ",", "\"", "m", "o", "v", "e", "s", "\"",
        ":", "{", "\"", "a", "\"", ":", "1", "}", "}", "]">>),
    T(<<"[", "{", "\"", "e", "c", "o", "\"", ":", "1", ",", "\"", "n", "a",
        "m", "e", "\"", ":", "2", ",", "\"", "m", "o", "v", "e", "s", "\"",
        ":", "\"", "1", "\"", "}", ",", "{", "\"", "e", "c", "o", "\"",
        ":", "1", ",", "\"", "n", "a", "m", "e", "\"", ":", "2", ",", "\"",
        "m", "o", "v", "e", "s", "\"", ":", "1", "}", "]">>),
    T(<<"[", "{", "\"", "e", "c", "o", "\"", ":", "1", ",", "\"", "n", "a",
        "m", "e", "\"", ":", "2", ",", "\"", "m", "o", "v", "e", "s", "\"",
        ":", "\"", "a", "\"", ",", "\"", "m", "o", "v", "e", "s", "\"",
        ":", "\"", "b", "\"", "}", ",", "{", "\"", "e", "c", "o", "\"",
        ":", "1", ",", "\"", "n", "a", "m", "e", "\"", ":", "2", ",", "\"",
        "m", "o", "v", "e", "s", "\"", ":", "\"", "a", "\"", "}", "]">>),
    T(<<"[", "{", "\"", "e", "c", "o", "\"", ":", "1", ",", "\"", "n", "a",
        "m", "e", "\"", ":", "2", ",", "\"", "m", "o", "v", "e", "s", "\"",
        ":", "\"", "a", "\"", ",", "\"", "m", "o", "v", "e", "s", "\"",
        ":", "\"", "b", "\"", "}", ",", "{", "\"", "e", "c", "o", "\"",
        ":", "1", ",", "\"", "n", "a", "m", "e", "\"", ":", "2", ",", "\"",
        "m", "o", "v", "e", "s", "\"", ":", "\"", "b", "\"", "}", "]">>),
    T(<<"[", "{", "\"", "e", "c", "o", "\"", ":", "1", ",", "\"", "n", "a",
        "m", "e", "\"", ":", "2", ",", "\"", "m", "o", "v", "e", "s", "\"",
        ":", "\"", "b", "\"", "}", ",", "{", "\"", "e", "c", "o", "\"",
        ":", "1", ",", "\"", "n", "a", "m", "e", "\"", ":", "2", ",", "\"",
        "m", "o", "v", "e", "s", "\"", ":", "\"", "a", "\"", "}", ",", "{",
        "\"", "e", "c", "o", "\"", ":", "1", ",", "\"", "n", "a", "m", "e",
        "\"", ":", "2", ",", "\"", "m", "o", "v", "e", "s", "\"", ":",
        "\"", "a", "\"", "}", ",", "{", "\"", "e", "c", "o", "\"", ":",
        "1", ",", "\"", "n", "a", "m", "e", "\"", ":", "2", ",", "\"", "m",
        "o", "v", "e", "s", "\"", ":", "\"", "b", "\"", "}", "]">>),
    T(<<"[">>) \o
    <<13>> \o
    T(<<"]">>),
    T(<<"[">>) \o
    <<13, 13, 10>> \o
    T(<<"]">>),
    T(<<"[", "\"">>) \o
    <<240, 159, 152, 128>> \o
    T(<<"\"", "]">>),
    T(<<"[", "[", "]", "]">>),
    T(<<"[", "n", "u", "l", "l", ",", " ", "{", "\"", "E", "C", "O", "\"",
        ":", "1", ",", "\"", "N", "a", "m", "e", "\"", ":", "2", ",", "\"",
        "M", "o", "v", "e", "s", "\"", ":", "3", "}", "]">>),
    T(<<"[", "{", "\"", "e", "c", "o", "\"", ":", "\"", "A", "0", "0",
        "\"", ",", "\"", "n", "a", "m", "e", "\"", ":", "\"">>) \o
    <<240, 159, 152, 128>> \o
    T(<<"\"", ",", "\"", "m", "o", "v", "e", "s", "\"", ":", "\"">>) \o
    <<195, 169>> \o
    T(<<"\"", "}", "]">>) \o
    <<10>>,
    T(<<"[", "{", "\"", "e", "c", "o", "\"", ":", "1", ",", "\"", "n", "a",
        "m", "e", "\"", ":", "2", ",", "\"", "m", "o", "v", "e", "s", "\"",
        ":", "\"", "1", ".", "b", "4", " ", "\"", "}", ",", "{", "\"", "e",
        "c", "o", "\"", ":", "1", ",", "\"", "n", "a", "m", "e", "\"", ":",
        "2", ",", "\"", "m", "o", "v", "e", "s", "\"", ":", "\"", "1", ".",
        "b", "4", "\"", "}", "]">>)
  >>

\* Numbers at and beyond the range of the doubles: a root and moves values
\* that overflow to inf, underflow to 0.0 or -0.0, or lie just inside.
FloatRangeBytes ==
  <<
    T(<<"1", "e", "4", "0", "0">>),
    T(<<"[", "{", "\"", "e", "c", "o", "\"", ":", "1", ",", "\"", "n", "a",
        "m", "e", "\"", ":", "2", ",", "\"", "m", "o", "v", "e", "s", "\"",
        ":", "1", "e", "4", "0", "0", "}", ",", "{", "\"", "e", "c", "o",
        "\"", ":", "1", ",", "\"", "n", "a", "m", "e", "\"", ":", "2", ",",
        "\"", "m", "o", "v", "e", "s", "\"", ":", "2", "e", "4", "0", "0",
        "}", "]">>),
    T(<<"[", "{", "\"", "e", "c", "o", "\"", ":", "1", ",", "\"", "n", "a",
        "m", "e", "\"", ":", "2", ",", "\"", "m", "o", "v", "e", "s", "\"",
        ":", "1", "e", "-", "4", "0", "0", "}", ",", "{", "\"", "e", "c",
        "o", "\"", ":", "1", ",", "\"", "n", "a", "m", "e", "\"", ":", "2",
        ",", "\"", "m", "o", "v", "e", "s", "\"", ":", "0", "}", "]">>),
    T(<<"[", "{", "\"", "e", "c", "o", "\"", ":", "1", ",", "\"", "n", "a",
        "m", "e", "\"", ":", "2", ",", "\"", "m", "o", "v", "e", "s", "\"",
        ":", "-", "1", "e", "-", "4", "0", "0", "}", ",", "{", "\"", "e",
        "c", "o", "\"", ":", "1", ",", "\"", "n", "a", "m", "e", "\"", ":",
        "2", ",", "\"", "m", "o", "v", "e", "s", "\"", ":", "1", "e", "-",
        "4", "0", "0", "}", "]">>),
    T(<<"[", "{", "\"", "e", "c", "o", "\"", ":", "1", ",", "\"", "n", "a",
        "m", "e", "\"", ":", "2", ",", "\"", "m", "o", "v", "e", "s", "\"",
        ":", "1", "e", "4", "0", "0", "}", ",", "{", "\"", "e", "c", "o",
        "\"", ":", "1", ",", "\"", "n", "a", "m", "e", "\"", ":", "2", ",",
        "\"", "m", "o", "v", "e", "s", "\"", ":", "-", "1", "e", "4", "0",
        "0", "}", ",", "{", "\"", "e", "c", "o", "\"", ":", "1", ",", "\"",
        "n", "a", "m", "e", "\"", ":", "2", ",", "\"", "m", "o", "v", "e",
        "s", "\"", ":", "I", "n", "f", "i", "n", "i", "t", "y", "}", "]">>),
    T(<<"[", "{", "\"", "e", "c", "o", "\"", ":", "1", ",", "\"", "n", "a",
        "m", "e", "\"", ":", "2", ",", "\"", "m", "o", "v", "e", "s", "\"",
        ":", "1", "e", "3", "0", "7", "}", ",", "{", "\"", "e", "c", "o",
        "\"", ":", "1", ",", "\"", "n", "a", "m", "e", "\"", ":", "2", ",",
        "\"", "m", "o", "v", "e", "s", "\"", ":", "1", "e", "-", "3", "0",
        "7", "}", ",", "{", "\"", "e", "c", "o", "\"", ":", "1", ",", "\"",
        "n", "a", "m", "e", "\"", ":", "2", ",", "\"", "m", "o", "v", "e",
        "s", "\"", ":", "1", "2", "3", "4", "5", "6", "7", "8", "9", "e",
        "-", "9", "}", "]">>),
    T(<<"[", "{", "\"", "e", "c", "o", "\"", ":", "1", ",", "\"", "n", "a",
        "m", "e", "\"", ":", "2", ",", "\"", "m", "o", "v", "e", "s", "\"",
        ":", "1", "2", "3", "4", "5", "6", "7", "8", "9", "}", ",", "{",
        "\"", "e", "c", "o", "\"", ":", "1", ",", "\"", "n", "a", "m", "e",
        "\"", ":", "2", ",", "\"", "m", "o", "v", "e", "s", "\"", ":", "1",
        ".", "2", "3", "4", "5", "6", "7", "8", "9", "e", "8", "}", "]">>)
  >>

\* An array holding an int of one digit more than int() converts.
BigIntBytes ==
  T(<<"[">>) \o [k \in 1..(MaxStrDigits + 1) |-> 49] \o T(<<"]">>)

Range(f) == { f[x] : x \in DOMAIN f }

OtherFiles ==
  { [status |-> "missing", bytes |-> << >>],
    [status |-> "denied", bytes |-> << >>] }
  \cup { OnDisk(b) : b \in Range(BadUtf8Bytes) \cup Range(BadJsonBytes)
                          \cup Range(NonArrayBytes) \cup Range(MoreArrayBytes)
                          \cup Range(FloatRangeBytes) \cup {BigIntBytes} }

Files == ArrayFiles \cup OtherFiles

(***************************************************************************)
(* One run of main().  pc is the statement about to execute; exit_code is  *)
(* -1 while the process runs.  stdout and stderr are the lines written.    *)
(* first records the file as it was when the process started and, once a    *)
(* second run has been started, what the first run wrote and returned.     *)
(***************************************************************************)
VARIABLES file, pc, content, data, exc, missing, idx, move_counts,
          duplicates, stdout, stderr, exit_code, first

vars == << file, pc, content, data, exc, missing, idx, move_counts,
           duplicates, stdout, stderr, exit_code, first >>

NoExc == [type |-> "none"]

\* The fixed parts of the messages.
LoadMsg == "Failed to load"
ShapeMsg == "Dataset root must be a JSON array."
FieldMsg == "Entries missing required keys"
DuplicateMsg == "Duplicate move strings found"
TracebackMsg == "Traceback (most recent call last)"
EntriesLine == "ECO-lite entries"
SizeLine == "Approximate file size"

Init ==
  /\ file \in Files
  /\ pc = "read_text"
  /\ content = << >>
  /\ data = PyNone
  /\ exc = NoExc
  /\ missing = << >>
  /\ idx = 0
  /\ move_counts = [ok |-> TRUE, keys |-> << >>, counts |-> << >>]
  /\ duplicates = << >>
  /\ stdout = << >>
  /\ stderr = << >>
  /\ exit_code = -1
  /\ first = [file |-> file, done |-> FALSE, exit_code |-> -1,
              stdout |-> << >>, stderr |-> << >>]

\* return code, after print(line, file=sys.stderr)
Fail(line) ==
  /\ stderr' = Append(stderr, line)
  /\ exit_code' = 1
  /\ pc' = "exited"

\* content = data_path.read_text(encoding="utf-8")
DoReadText ==
  /\ pc = "read_text"
  /\ LET r == ReadText(file)
     IN IF r.ok
          THEN /\ content' = r.text
               /\ pc' = "json_loads"
               /\ exc' = exc
          ELSE /\ exc' = r.exc
               /\ pc' = "except"
               /\ content' = content
  /\ UNCHANGED << first, file, data, missing, idx, move_counts, duplicates, stdout,
                  stderr, exit_code >>

\* data = json.loads(content)
DoJsonLoads ==
  /\ pc = "json_loads"
  /\ LET r == JsonLoads(content)
     IN IF r.ok
          THEN /\ data' = r.val
               /\ pc' = "shape"
               /\ exc' = exc
          ELSE /\ exc' = r.exc
               /\ pc' = "except"
               /\ data' = data
  /\ UNCHANGED << first, file, content, missing, idx, move_counts, duplicates,
                  stdout, stderr, exit_code >>

\* except Exception as exc: print(f"Failed to load {data_path}: {exc}")
DoExcept ==
  /\ pc = "except"
  /\ Fail([text |-> LoadMsg, exc |-> exc])
  /\ UNCHANGED << first, file, content, data, exc, missing, idx, move_counts,
                  duplicates, stdout >>

\* Mutant of DoShapeCheck: an object root is let through as well.
DoShapeCheckListOrDict ==
  /\ pc = "shape"
  /\ IF data.t # "list" /\ data.t # "dict"
       THEN /\ Fail([text |-> ShapeMsg])
            /\ UNCHANGED << missing, idx >>
       ELSE /\ missing' = << >>
            /\ idx' = 0
            /\ pc' = "for_entry"
            /\ UNCHANGED << stderr, exit_code >>
  /\ UNCHANGED << first, file, content, data, exc, move_counts, duplicates, stdout >>

\* if not isinstance(data, list): ...
DoShapeCheck ==
  /\ pc = "shape"
  /\ IF data.t # "list"
       THEN /\ Fail([text |-> ShapeMsg])
            /\ UNCHANGED << missing, idx >>
       ELSE /\ missing' = << >>
            /\ idx' = 0
            /\ pc' = "for_entry"
            /\ UNCHANGED << stderr, exit_code >>
  /\ UNCHANGED << first, file, content, data, exc, move_counts, duplicates, stdout >>

\* one iteration of: for idx, entry in enumerate(data)
DoFieldCheck ==
  /\ pc = "for_entry"
  /\ idx < Len(data.items)
  /\ missing' = CheckEntry(data.items[idx + 1], idx, missing)
  /\ idx' = idx + 1
  /\ UNCHANGED << first, file, pc, content, data, exc, move_counts, duplicates,
                  stdout, stderr, exit_code >>

\* Mutant of DoMissingCheck: the message is printed but the return is
\* missing, so the run goes on to the duplicate check.
DoMissingCheckNoReturn ==
  /\ pc = "for_entry"
  /\ idx = Len(data.items)
  /\ IF missing # << >>
       THEN stderr' = Append(stderr, [text |-> FieldMsg,
                                      missing |-> missing])
       ELSE stderr' = stderr
  /\ pc' = "counter"
  /\ UNCHANGED << first, file, content, data, exc, missing, idx, move_counts,
                  duplicates, stdout, exit_code >>

\* if missing: ...
DoMissingCheck ==
  /\ pc = "for_entry"
  /\ idx = Len(data.items)
  /\ IF missing # << >>
       THEN Fail([text |-> FieldMsg,
                  missing |-> missing])
       ELSE /\ pc' = "counter"
            /\ UNCHANGED << stderr, exit_code >>
  /\ UNCHANGED << first, file, content, data, exc, missing, idx, move_counts,
                  duplicates, stdout >>

\* entry["moves"] for entry in data
MovesOf(d) == [k \in 1..Len(d.items) |-> DictGet(d.items[k], MovesKey)]

\* Mutant of DoCounter: the duplicates are collected in a set, whose
\* iteration order is not fixed from run to run.
DoCounterUnordered ==
  /\ pc = "counter"
  /\ LET c == Counter(MovesOf(data))
     IN IF c.ok
          THEN /\ move_counts' = c
               /\ \E perm \in Permutations(1..Len(DuplicatesFrom(c, 1))) :
                    duplicates' = [k \in 1..Len(DuplicatesFrom(c, 1)) |->
                                     DuplicatesFrom(c, 1)[perm[k]]]
               /\ pc' = "if_duplicates"
               /\ UNCHANGED << stderr, exit_code >>
          ELSE /\ Fail([text |-> TracebackMsg,
                        exc |-> c.exc])
               /\ UNCHANGED << move_counts, duplicates >>
  /\ UNCHANGED << first, file, content, data, exc, missing, idx, stdout >>

\* move_counts = Counter(...); duplicates = [...].  A TypeError raised by
\* Counter is caught nowhere: the interpreter writes the traceback to
\* stderr and exits with status 1.
DoCounter ==
  /\ pc = "counter"
  /\ LET c == Counter(MovesOf(data))
     IN IF c.ok
          THEN /\ move_counts' = c
               /\ duplicates' = DuplicatesFrom(c, 1)
               /\ pc' = "if_duplicates"
               /\ UNCHANGED << stderr, exit_code >>
          ELSE /\ Fail([text |-> TracebackMsg,
                        exc |-> c.exc])
               /\ UNCHANGED << move_counts, duplicates >>
  /\ UNCHANGED << first, file, content, data, exc, missing, idx, stdout >>

\* if duplicates: ...
DoDuplicatesCheck ==
  /\ pc = "if_duplicates"
  /\ IF duplicates # << >>
       THEN Fail([text |-> DuplicateMsg,
                  count |-> Len(duplicates), duplicates |-> duplicates])
       ELSE /\ pc' = "report"
            /\ UNCHANGED << stderr, exit_code >>
  /\ UNCHANGED << first, file, content, data, exc, missing, idx, move_counts,
                  duplicates, stdout >>

\* byte_size = len(content.encode("utf-8")); the two prints; return 0
DoReport ==
  /\ pc = "report"
  /\ stdout' = stdout \o
       << [text |-> EntriesLine, n |-> Len(data.items)],
          [text |-> SizeLine, bytes |-> Utf8Len(content)] >>
  /\ exit_code' = 0
  /\ pc' = "exited"
  /\ UNCHANGED << first, file, content, data, exc, missing, idx, move_counts,
                  duplicates, stderr >>

Next ==
  \/ DoReadText
  \/ DoJsonLoads
  \/ DoExcept
  \/ DoShapeCheck
  \/ DoFieldCheck
  \/ DoMissingCheck
  \/ DoCounter
  \/ DoDuplicatesCheck
  \/ DoReport

Spec == Init /\ [][Next]_vars

\* The script is started once more on the file as the first run left it.
DoRunAgain ==
  /\ pc = "exited"
  /\ ~first.done
  /\ first' = [first EXCEPT !.done = TRUE, !.exit_code = exit_code,
                            !.stdout = stdout, !.stderr = stderr]
  /\ pc' = "read_text"
  /\ content' = << >>
  /\ data' = PyNone
  /\ exc' = NoExc
  /\ missing' = << >>
  /\ idx' = 0
  /\ move_counts' = [ok |-> TRUE, keys |-> << >>, counts |-> << >>]
  /\ duplicates' = << >>
  /\ stdout' = << >>
  /\ stderr' = << >>
  /\ exit_code' = -1
  /\ UNCHANGED file

NextTwice == Next \/ DoRunAgain

SpecTwice == Init /\ [][NextTwice]_vars

(***************************************************************************)
(* Properties.                                                             *)
(***************************************************************************)
Exited == pc = "exited"

Printed(text) == \E k \in 1..Len(stderr) : stderr[k].text = text

\* The run got past json.loads: data is the parsed root.
Parsed == pc \notin {"read_text", "json_loads", "except"} /\ exc = NoExc

\* An element the field check must report.
Offending(e) ==
  \/ e.t # "dict"
  \/ \E k \in 1..Len(RequiredKeys) : ~DictHas(e, RequiredKeys[k])

AllHaveKeys(d) ==
  d.t = "list" /\ \A p \in 1..Len(d.items) : ~Offending(d.items[p])

\* The positions of the records whose moves value is v: the same JSON
\* value, for strings the same code points.
Carriers(d, v) ==
  {p \in 1..Len(d.items) : DictGet(d.items[p], MovesKey) = v}

ValidDataset(d) ==
  /\ AllHaveKeys(d)
  /\ \A p \in 1..Len(d.items) :
       Carriers(d, DictGet(d.items[p], MovesKey)) = {p}

\* C1: every run ends either with exit code 0, the two summary lines and
\* nothing on stderr, or with a non-zero exit code, no summary line and
\* exactly one diagnostic of the load/parse, shape, field or duplicate
\* category; no run ends with an uncaught failure.
C1_ReportOrOneDiagnostic ==
  Exited =>
    \/ exit_code = 0 /\ Len(stdout) = 2 /\ stderr = << >>
    \/ /\ exit_code # 0
       /\ stdout = << >>
       /\ Len(stderr) = 1
       /\ stderr[1].text \in {LoadMsg, ShapeMsg, FieldMsg, DuplicateMsg}

\* C2: for every array of objects that all have eco, name and moves, with
\* pairwise distinct moves values, the run exits 0 and reports the array
\* length and the UTF-8 length of the text.
C2_ValidDatasetSucceeds ==
  (Exited /\ Parsed /\ ValidDataset(data)) =>
    /\ exit_code = 0
    /\ Len(stdout) = 2
    /\ stdout[1].n = Len(data.items)
    /\ stdout[2].bytes = Utf8Len(content)

\* C3: when the field check fails, the reported list holds exactly the
\* positions of the elements that are not a mapping or lack a required key,
\* each once, in ascending order.
C3_MissingIsExactlyTheOffenders ==
  (Exited /\ Printed(FieldMsg)) =>
    LET m == stderr[1].missing
    IN /\ Len(stderr) = 1
       /\ \A p \in 1..Len(data.items) :
            Offending(data.items[p]) <=> \E q \in 1..Len(m) : m[q] = p - 1
       /\ \A q \in 1..Len(m) : m[q] >= 0 /\ m[q] < Len(data.items)
       /\ \A q1, q2 \in 1..Len(m) : q1 < q2 => m[q1] < m[q2]

\* A field error over three elements: the first lacks all three keys, the
\* second is complete, the third is reported too.
C3_Witness ==
  /\ Exited
  /\ Printed(FieldMsg)
  /\ stderr[1].missing = <<0, 2>>
  /\ Len(data.items) = 3
  /\ data.items[1] = PyDict(<< >>, << >>)

\* C4: when every element has the three keys, the duplicate error is
\* reported if and only if some moves value is carried by more than one
\* record; it then lists each such value once and no other, with their
\* number, and no field error is reported.
C4_DuplicateIffRepeated ==
  (Exited /\ Parsed /\ AllHaveKeys(data)) =>
    LET moves == MovesOf(data)
        Repeated(v) == Cardinality(Carriers(data, v)) > 1
    IN /\ ~Printed(FieldMsg)
       /\ Printed(DuplicateMsg) <=> \E p \in 1..Len(moves) : Repeated(moves[p])
       /\ Printed(DuplicateMsg) =>
            LET d == stderr[1].duplicates
            IN /\ stderr[1].count = Len(d)
               /\ \A q \in 1..Len(d) : Repeated(d[q])
               /\ \A p \in 1..Len(moves) :
                    Repeated(moves[p]) =>
                      Cardinality({q \in 1..Len(d) : d[q] = moves[p]}) = 1

\* C5: the duplicate check is reached only when no element failed the field
\* check, and a run over an array with an offending element reports the
\* field error alone, never the duplicate error.
C5_FieldCheckBeforeDuplicateCheck ==
  /\ pc \in {"counter", "if_duplicates", "report"} => AllHaveKeys(data)
  /\ (Exited /\ Parsed /\ data.t = "list" /\ ~AllHaveKeys(data)) =>
       /\ exit_code = 1
       /\ Len(stderr) = 1
       /\ stderr[1].text = FieldMsg
       /\ duplicates = << >>
       /\ move_counts.keys = << >>
       /\ stdout = << >>

\* A field error for an array in which two records carry the same moves.
C5_Witness ==
  /\ Exited
  /\ Printed(FieldMsg)
  /\ \E p, q \in 1..Len(data.items) :
       /\ p < q
       /\ ~Offending(data.items[p])
       /\ ~Offending(data.items[q])
       /\ DictGet(data.items[p], MovesKey) = DictGet(data.items[q], MovesKey)

\* C6: a parsed root that is not an array ends the run with the shape error
\* and exit code 1; the field check, the duplicate check and the report do
\* not run.
C6_NonArrayRootIsShapeError ==
  /\ pc \in {"for_entry", "counter", "if_duplicates", "report"} =>
       data.t = "list"
  /\ (Exited /\ Parsed /\ data.t # "list") =>
       /\ exit_code = 1
       /\ Len(stderr) = 1
       /\ stderr[1].text = ShapeMsg
       /\ stdout = << >>
       /\ missing = << >>
       /\ idx = 0
       /\ move_counts.keys = << >>
       /\ duplicates = << >>

\* A shape error for a root object that has the content of a valid record.
C6_Witness ==
  /\ Exited
  /\ Printed(ShapeMsg)
  /\ data.t = "dict"
  /\ ~Offending(data)

\* The number of backslashes that end just before position k of s.
BackslashRun(s, k) ==
  CHOOSE r \in 0..(k - 1) :
    /\ \A j \in (k - r)..(k - 1) : s[j] = Ord("\\")
    /\ r = k - 1 \/ s[k - r - 1] # Ord("\\")

\* Position k of s holds a quote that opens or closes a string.
IsStringQuote(s, k) == s[k] = Ord("\"") /\ BackslashRun(s, k) % 2 = 0

\* Position k of s lies inside a string.
InString(s, k) ==
  Cardinality({j \in 1..(k - 1) : IsStringQuote(s, j)}) % 2 = 1

\* The text holds N or I outside every string. No JSON text (RFC 8259)
\* does; a text that json.loads accepts does where it holds one of the
\* constants NaN, Infinity and -Infinity.
HasConstant(s) ==
  \E k \in 1..Len(s) : s[k] \in {Ord("N"), Ord("I")} /\ ~InString(s, k)

\* The text is not a JSON text: it holds a constant that JSON does not
\* have, or the parser finds a syntax error in it.
NotJson(s) ==
  \/ HasConstant(s)
  \/ ~JsonLoads(s).ok /\ JsonLoads(s).exc.type = "JSONDecodeError"

\* C7: a file that is missing, unreadable, not UTF-8 or not valid JSON ends
\* the run with exit code 1 and one diagnostic carrying the exception that
\* was raised; no later stage runs; a parse failure is reported only for
\* text that was read and decoded.
C7_NotJsonIsLoadFailure ==
  (Exited /\ (~ReadText(file).ok \/ NotJson(ReadText(file).text))) =>
    /\ exit_code = 1
    /\ stdout = << >>
    /\ Len(stderr) = 1
    /\ stderr[1].text = LoadMsg
    /\ stderr[1].exc = exc
    /\ exc.type \in {"FileNotFoundError", "PermissionError",
                     "UnicodeDecodeError", "JSONDecodeError",
                     "ValueError", "RecursionError"}
    /\ exc.type = "FileNotFoundError" <=> file.status = "missing"
    /\ exc.type = "PermissionError" <=> file.status = "denied"
    /\ exc.type = "JSONDecodeError" =>
         /\ ReadText(file).ok
         /\ content = ReadText(file).text
         /\ exc.msg # ""
    /\ data = PyNone
    /\ missing = << >>
    /\ idx = 0
    /\ move_counts.keys = << >>
    /\ duplicates = << >>

\* C8 as stated: the scenario of one record exits 0 and prints 1 entry and
\* 45 bytes.
C8_Scenario45Bytes ==
  (Exited /\ file = OnDisk(ScenarioPolish)) =>
    /\ exit_code = 0
    /\ stderr = << >>
    /\ stdout = << [text |-> EntriesLine, n |-> 1],
                   [text |-> SizeLine, bytes |-> 45] >>

\* C8 amended: the scenario of one record exits 0 and prints 1 entry and
\* 46 bytes, the length of the text.
C8_Scenario46Bytes ==
  (Exited /\ file = OnDisk(ScenarioPolish)) =>
    /\ exit_code = 0
    /\ stderr = << >>
    /\ stdout = << [text |-> EntriesLine, n |-> 1],
                   [text |-> SizeLine, bytes |-> 46] >>

\* The run over the scenario of one record has ended.
C8_Witness ==
  /\ Exited
  /\ file = OnDisk(ScenarioPolish)
  /\ Len(file.bytes) = 46
  /\ Len(stdout) = 2

\* C9: on success the reported byte size is the size of the file on disk.
C9_SizeIsOnDiskSize ==
  (Exited /\ exit_code = 0) => stdout[2].bytes = Len(file.bytes)

\* The first record of the array whose moves value is the dict key v.
FirstCarrier(d, v) ==
  CHOOSE p \in 1..Len(d.items) :
    /\ KeyEq(DictGet(d.items[p], MovesKey), v)
    /\ \A r \in 1..(p - 1) : ~KeyEq(DictGet(d.items[r], MovesKey), v)

\* C10: a second run on the file gives the exit code and the messages of
\* the first; reported indices ascend and reported duplicates follow the
\* array order of their first occurrence; the file is as it was when the
\* process started.
C10_DeterministicAndReadOnly ==
  /\ file = first.file
  /\ (Exited /\ first.done) =>
       /\ exit_code = first.exit_code
       /\ stdout = first.stdout
       /\ stderr = first.stderr
  /\ (Exited /\ Printed(DuplicateMsg)) =>
       LET d == stderr[1].duplicates
       IN \A q1, q2 \in 1..Len(d) :
            q1 < q2 => FirstCarrier(data, d[q1]) < FirstCarrier(data, d[q2])
  /\ (Exited /\ Printed(FieldMsg)) =>
       LET m == stderr[1].missing
       IN \A q1, q2 \in 1..Len(m) : q1 < q2 => m[q1] < m[q2]

\* The second run has ended with two duplicated values reported, the one
\* that occurs first in the array not being the one of the first
\* repetition.
C10_Witness ==
  /\ Exited
  /\ first.done
  /\ Printed(DuplicateMsg)
  /\ Len(stderr[1].duplicates) = 2
  /\ stderr = first.stderr
  /\ FirstCarrier(data, stderr[1].duplicates[2]) = 2

====
